---- MODULE Spec2Model ----
(***************************************************************************)
(* ShellOperationRunnerFactory (rush-lib, logic/operations): the factory   *)
(* that decides, for a (phase, project) pair, whether the operation runs a *)
(* shell command, is a no-op, or is a configuration error, and that        *)
(* memoizes each phase's custom-parameter argument list.                   *)
(*                                                                         *)
(* Strings are sequences of one-character strings, so that join, slice and *)
(* the slash conversion are computed character by character.               *)
(***************************************************************************)
EXTENDS Naturals, Sequences, FiniteSets, TLC

VARIABLES
  _options,                  \* this._options (set by the constructor, readonly)
  platform,                  \* process.platform of the host
  _customParametersByPhase,  \* this._customParametersByPhase : Map<IPhase, string[]>
  appendToArgListCalls,      \* probe: appendToArgList calls received by each parameter
  computations,              \* probe: times the argument list of each phase was built
  passed,                    \* history: phases given to createOperationRunner so far
  observed,                  \* history: per phase, the argument lists its calls were given
  lastCall,                  \* the (phase, project) of the latest call
  prevCall,                  \* the (phase, project) of the call before it
  lastComputed,              \* whether the latest call built its phase's argument list
  lastOutcome,               \* what the latest call returned or threw
  calls                      \* number of createOperationRunner calls made

vars == <<_options, platform, _customParametersByPhase, appendToArgListCalls,
          computations, passed, observed, lastCall, prevCall, lastComputed,
          lastOutcome, calls>>

\* Number of createOperationRunner calls explored on one factory.
MaxCalls == 4

----------------------------------------------------------------------------
\* String helpers (JavaScript semantics)

SPACE == <<" ">>

\* Array.prototype.join
RECURSIVE join(_, _)
join(list, sep) ==
  IF list = <<>> THEN <<>>
  ELSE IF Len(list) = 1 THEN list[1]
  ELSE list[1] \o sep \o join(Tail(list), sep)

\* String.prototype.slice(start) for 0 <= start
slice(str, start) == SubSeq(str, start + 1, Len(str))

\* RushConstants.phaseNamePrefix
phaseNamePrefix == <<"_", "p", "h", "a", "s", "e", ":">>

\* convertSlashesForWindows: forward slashes become the host's separator
convertSlashesForWindows(command) ==
  [i \in 1..Len(command) |-> IF command[i] = "/" THEN "\\" ELSE command[i]]

----------------------------------------------------------------------------
\* The collaborators' data: phases, projects, custom parameters

Platforms == {"win32", "linux"}

PhaseIds == {"build", "test", "lint", "rebuild"}

\* IPhase, by identity
Phase(id) ==
  CASE id = "build" ->
         [name |-> phaseNamePrefix \o <<"b", "u", "i", "l", "d">>,
          ignoreMissingScript |-> FALSE, isSynthetic |-> FALSE,
          associatedParameters |-> {}]
    [] id = "test" ->
         [name |-> phaseNamePrefix \o <<"t", "e", "s", "t">>,
          ignoreMissingScript |-> TRUE, isSynthetic |-> FALSE,
          associatedParameters |-> {"production", "locale"}]
    [] id = "lint" ->
         [name |-> phaseNamePrefix \o <<"l", "i", "n", "t">>,
          ignoreMissingScript |-> TRUE, isSynthetic |-> FALSE,
          associatedParameters |-> {"verbose"}]
    [] id = "rebuild" ->
         [name |-> <<"r", "e", "b", "u", "i", "l", "d">>,
          ignoreMissingScript |-> FALSE, isSynthetic |-> TRUE,
          associatedParameters |-> {"locale", "verbose"}]

ParameterIds == {"production", "locale", "verbose"}

\* The tokens CommandLineParameter.appendToArgList appends for each parameter
\* ("verbose" was not given on the command line and renders nothing).
RenderedTokens(parameter) ==
  CASE parameter = "production" -> << <<"-", "p">> >>
    [] parameter = "locale" -> << <<"-", "l">>, <<"a", "/", "b">> >>
    [] parameter = "verbose" -> << >>

appendToArgList(tsCommandLineParameter, argList) ==
  argList \o RenderedTokens(tsCommandLineParameter)

\* IRegisteredCustomParameter
RegisteredCustomParameter(id) == [parameter |-> id, tsCommandLineParameter |-> id]

\* A script value of package.json: null or a string
Null == [kind |-> "null", value |-> <<>>]
Str(s) == [kind |-> "string", value |-> s]
Undefined == [kind |-> "undefined", value |-> <<>>]

NameBuild == Phase("build").name
NameTest == Phase("test").name
NameLint == Phase("lint").name
NameRebuild == Phase("rebuild").name

ProjectIds == {"alpha", "beta", "gamma", "delta"}

\* RushConfigurationProject: packageName and packageJson.scripts
Project(id) ==
  CASE id = "alpha" ->
         [packageName |-> <<"a", "l", "p", "h", "a">>,
          packageJson |-> [hasScripts |-> TRUE,
            scripts |-> (NameBuild :> Str(<<"t", "s", "c">>))
                     @@ (NameTest :> Str(<<"a", "/", "b">>))
                     @@ (NameLint :> Str(<<>>))
                     @@ (NameRebuild :> Str(<<"t", "s", "c">>))]]
    [] id = "beta" ->
         [packageName |-> <<"b", "e", "t", "a">>,
          packageJson |-> [hasScripts |-> TRUE,
            scripts |-> (NameBuild :> Null)
                     @@ (NameTest :> Str(<<>>))
                     @@ (NameRebuild :> Str(<<>>))]]
    [] id = "gamma" ->
         [packageName |-> <<"g", "a", "m", "m", "a">>,
          packageJson |-> [hasScripts |-> FALSE, scripts |-> <<>>]]
    [] id = "delta" ->
         [packageName |-> <<"d", "e", "l", "t", "a">>,
          packageJson |-> [hasScripts |-> TRUE,
            scripts |-> (NameBuild :> Str(<<>>))
                     @@ (NameTest :> Null)
                     @@ (NameLint :> Str(<<"a", "/", "b">>))]]

----------------------------------------------------------------------------
\* ShellOperationRunnerFactory

\* The loop of _getCustomParameterValuesForPhase over this._options.customParameters,
\* from entry i on; acc.values is the list built so far and acc.appended the
\* parameters whose appendToArgList has been invoked.
RECURSIVE appendLoop_noHasCheck(_, _, _, _)
appendLoop_noHasCheck(customParameters, phase, i, acc) ==
  IF i > Len(customParameters) THEN acc
  ELSE appendLoop_noHasCheck(customParameters, phase, i + 1,
         [values |-> appendToArgList(customParameters[i].tsCommandLineParameter, acc.values),
          appended |-> Append(acc.appended, customParameters[i].parameter)])

RECURSIVE appendLoop(_, _, _, _)
appendLoop(customParameters, phase, i, acc) ==
  IF i > Len(customParameters) THEN acc
  ELSE appendLoop(customParameters, phase, i + 1,
         IF customParameters[i].parameter \in Phase(phase).associatedParameters
         THEN [values |-> appendToArgList(customParameters[i].tsCommandLineParameter, acc.values),
               appended |-> Append(acc.appended, customParameters[i].parameter)]
         ELSE acc)

\* Mutant: an empty cached list is taken for a missing entry and built again.
_getCustomParameterValuesForPhase_emptyIsMiss(cache, customParameters, phase) ==
  IF phase \in DOMAIN cache /\ cache[phase] # <<>>
  THEN [values |-> cache[phase], cache |-> cache, computed |-> FALSE, appended |-> <<>>]
  ELSE LET built == appendLoop(customParameters, phase, 1, [values |-> <<>>, appended |-> <<>>])
       IN [values |-> built.values,
           cache |-> [p \in (DOMAIN cache) \cup {phase} |->
                        IF p = phase THEN built.values ELSE cache[p]],
           computed |-> TRUE, appended |-> built.appended]

\* Mutant: the built list is returned but never stored in the map.
_getCustomParameterValuesForPhase_noStore(cache, customParameters, phase) ==
  IF phase \in DOMAIN cache
  THEN [values |-> cache[phase], cache |-> cache, computed |-> FALSE, appended |-> <<>>]
  ELSE LET built == appendLoop(customParameters, phase, 1, [values |-> <<>>, appended |-> <<>>])
       IN [values |-> built.values, cache |-> cache,
           computed |-> TRUE, appended |-> built.appended]

\* Mutant: one slot shared by all phases (the lookup ignores its key).
_getCustomParameterValuesForPhase_sharedSlot(cache, customParameters, phase) ==
  IF DOMAIN cache # {}
  THEN [values |-> cache[CHOOSE p \in DOMAIN cache : TRUE], cache |-> cache,
        computed |-> FALSE, appended |-> <<>>]
  ELSE LET built == appendLoop(customParameters, phase, 1, [values |-> <<>>, appended |-> <<>>])
       IN [values |-> built.values,
           cache |-> [p \in {phase} |-> built.values],
           computed |-> TRUE, appended |-> built.appended]

\* Mutant: storing an entry drops the entries of the other phases.
_getCustomParameterValuesForPhase_evict(cache, customParameters, phase) ==
  IF phase \in DOMAIN cache
  THEN [values |-> cache[phase], cache |-> cache, computed |-> FALSE, appended |-> <<>>]
  ELSE LET built == appendLoop(customParameters, phase, 1, [values |-> <<>>, appended |-> <<>>])
       IN [values |-> built.values,
           cache |-> [p \in {phase} |-> built.values],
           computed |-> TRUE, appended |-> built.appended]

\* _getCustomParameterValuesForPhase(phase) on a factory whose map is `cache` and
\* whose options hold `customParameters`: the list returned, the map afterwards,
\* whether the list was built by this call, and the appendToArgList calls made.
\* An empty array is truthy, so an empty cached list is an entry like any other.
_getCustomParameterValuesForPhase(cache, customParameters, phase) ==
  IF phase \in DOMAIN cache
  THEN [values |-> cache[phase], cache |-> cache, computed |-> FALSE, appended |-> <<>>]
  ELSE LET built == appendLoop(customParameters, phase, 1, [values |-> <<>>, appended |-> <<>>])
       IN [values |-> built.values,
           cache |-> [p \in (DOMAIN cache) \cup {phase} |->
                        IF p = phase THEN built.values ELSE cache[p]],
           computed |-> TRUE, appended |-> built.appended]

\* scripts?.[commandToRun]
rawCommandOf(rushProject, commandToRun) ==
  LET packageJson == Project(rushProject).packageJson
  IN IF ~packageJson.hasScripts THEN Undefined
     ELSE IF commandToRun \notin DOMAIN packageJson.scripts THEN Undefined
     ELSE packageJson.scripts[commandToRun]

\* Mutant: a null script is taken for an empty one.
_getScriptToRun_nullIsEmpty(rushProject, commandToRun, customParameterValues, processPlatform) ==
  LET rawCommand == rawCommandOf(rushProject, commandToRun)
  IN IF rawCommand.kind = "undefined" THEN Undefined
     ELSE IF rawCommand.kind = "null" \/ rawCommand.value = <<>> THEN Str(<<>>)
     ELSE LET shellCommand == rawCommand.value \o SPACE \o join(customParameterValues, SPACE)
          IN Str(IF processPlatform = "win32"
                 THEN convertSlashesForWindows(shellCommand) ELSE shellCommand)

\* Mutant: an empty script is taken for a missing one.
_getScriptToRun_emptyIsMissing(rushProject, commandToRun, customParameterValues, processPlatform) ==
  LET rawCommand == rawCommandOf(rushProject, commandToRun)
  IN IF rawCommand.kind = "undefined" \/ rawCommand.kind = "null" THEN Undefined
     ELSE IF rawCommand.value = <<>> THEN Undefined
     ELSE LET shellCommand == rawCommand.value \o SPACE \o join(customParameterValues, SPACE)
          IN Str(IF processPlatform = "win32"
                 THEN convertSlashesForWindows(shellCommand) ELSE shellCommand)

\* _getScriptToRun: Undefined, or the string to run ('' for an empty script)
_getScriptToRun(rushProject, commandToRun, customParameterValues, processPlatform) ==
  LET rawCommand == rawCommandOf(rushProject, commandToRun)
  IN IF rawCommand.kind = "undefined" \/ rawCommand.kind = "null" THEN Undefined
     ELSE IF rawCommand.value = <<>> THEN Str(<<>>)
     ELSE LET shellCommand == rawCommand.value \o SPACE \o join(customParameterValues, SPACE)
          IN Str(IF processPlatform = "win32"
                 THEN convertSlashesForWindows(shellCommand) ELSE shellCommand)

\* Mutant: the phase name is shown with its prefix.
_getDisplayName_keepPrefix(phase, project) ==
  IF Phase(phase).isSynthetic
  THEN Project(project).packageName
  ELSE Project(project).packageName \o <<" ", "(">> \o Phase(phase).name \o <<")">>

_getDisplayName(phase, project) ==
  IF Phase(phase).isSynthetic
  THEN Project(project).packageName
  ELSE LET phaseNameWithoutPrefix == slice(Phase(phase).name, Len(phaseNamePrefix))
       IN Project(project).packageName \o <<" ", "(">> \o phaseNameWithoutPrefix \o <<")">>

\* The message of the Error thrown for a missing script
missingScriptMessage(packageName, phaseName) ==
  <<"T", "h", "e", " ", "p", "r", "o", "j", "e", "c", "t", " ", "'">>
  \o packageName
  \o <<"'", " ", "d", "o", "e", "s", " ", "n", "o", "t", " ", "d", "e", "f", "i", "n", "e", " ", "a", " ", "'">>
  \o phaseName
  \o <<"'", " ", "c", "o", "m", "m", "a", "n", "d", " ", "i", "n", " ", "t", "h", "e", " ",
       "'", "s", "c", "r", "i", "p", "t", "s", "'", " ", "s", "e", "c", "t", "i", "o", "n", " ",
       "o", "f", " ", "i", "t", "s", " ", "p", "a", "c", "k", "a", "g", "e", ".", "j", "s", "o", "n">>

\* What a call ends with: a thrown Error, a ShellOperationRunner or a NullOperationRunner
ThrownError(message) ==
  [kind |-> "error", message |-> message, displayName |-> <<>>, commandToRun |-> <<>>,
   rushProject |-> "", phase |-> "", isIncrementalBuildAllowed |-> FALSE,
   result |-> "", silent |-> FALSE]

ShellOperationRunner(rushProject, displayName, commandToRun, isIncrementalBuildAllowed, phase) ==
  [kind |-> "shell", message |-> <<>>, displayName |-> displayName,
   commandToRun |-> commandToRun, rushProject |-> rushProject, phase |-> phase,
   isIncrementalBuildAllowed |-> isIncrementalBuildAllowed,
   result |-> "", silent |-> FALSE]

NullOperationRunner(name, result, silent) ==
  [kind |-> "noop", message |-> <<>>, displayName |-> name, commandToRun |-> <<>>,
   rushProject |-> "", phase |-> "", isIncrementalBuildAllowed |-> FALSE,
   result |-> result, silent |-> silent]

\* createOperationRunner({phase, project}) on a factory whose map is `cache`:
\* the outcome, and what _getCustomParameterValuesForPhase did to the factory.
\* The map is updated before the missing-script check, so a throw keeps the entry.
createOperationRunner(cache, factoryOptions, processPlatform, phase, project) ==
  LET got == _getCustomParameterValuesForPhase(cache, factoryOptions.customParameters, phase)
      commandToRun == _getScriptToRun(project, Phase(phase).name, got.values, processPlatform)
      displayName == _getDisplayName(phase, project)
      outcome ==
        IF commandToRun.kind = "undefined" /\ ~Phase(phase).ignoreMissingScript
        THEN ThrownError(missingScriptMessage(Project(project).packageName, Phase(phase).name))
        ELSE IF commandToRun.kind = "string" /\ commandToRun.value # <<>>
        THEN ShellOperationRunner(project, displayName, commandToRun.value,
                                  factoryOptions.isIncrementalBuildAllowed, phase)
        ELSE NullOperationRunner(displayName, "FromCache", FALSE)
  IN [outcome |-> outcome, values |-> got.values, cache |-> got.cache,
      computed |-> got.computed, appended |-> got.appended]

----------------------------------------------------------------------------
\* The state machine: a factory is constructed, then createOperationRunner is
\* called for any (phase, project), in any order.

\* The orders in which the registered custom parameters may be iterated
Registrations ==
  {s \in [1..Cardinality(ParameterIds) -> ParameterIds] :
     \A i, j \in DOMAIN s : i # j => s[i] # s[j]}

NoCall == [phase |-> "", project |-> ""]
NoOutcome ==
  [kind |-> "none", message |-> <<>>, displayName |-> <<>>, commandToRun |-> <<>>,
   rushProject |-> "", phase |-> "", isIncrementalBuildAllowed |-> FALSE,
   result |-> "", silent |-> FALSE]

\* Occurrences of parameter p in the sequence of appendToArgList calls
CountOf(p, appended) == Cardinality({i \in DOMAIN appended : appended[i] = p})

Init ==
  /\ \E order \in Registrations :
       _options = [customParameters |-> [i \in DOMAIN order |-> RegisteredCustomParameter(order[i])],
                   isIncrementalBuildAllowed |-> TRUE]
  /\ platform \in Platforms
  /\ _customParametersByPhase = <<>>
  /\ appendToArgListCalls = [p \in ParameterIds |-> 0]
  /\ computations = [ph \in PhaseIds |-> 0]
  /\ passed = {}
  /\ observed = [ph \in PhaseIds |-> {}]
  /\ lastCall = NoCall
  /\ prevCall = NoCall
  /\ lastComputed = FALSE
  /\ lastOutcome = NoOutcome
  /\ calls = 0

CreateOperationRunner(phase, project) ==
  /\ calls < MaxCalls
  /\ LET r == createOperationRunner(_customParametersByPhase, _options, platform, phase, project)
     IN /\ _customParametersByPhase' = r.cache
        /\ appendToArgListCalls' =
             [p \in ParameterIds |-> appendToArgListCalls[p] + CountOf(p, r.appended)]
        /\ computations' =
             [computations EXCEPT ![phase] = @ + (IF r.computed THEN 1 ELSE 0)]
        /\ observed' = [observed EXCEPT ![phase] = @ \cup {r.values}]
        /\ lastComputed' = r.computed
        /\ lastOutcome' = r.outcome
  /\ passed' = passed \cup {phase}
  /\ lastCall' = [phase |-> phase, project |-> project]
  /\ prevCall' = lastCall
  /\ calls' = calls + 1
  /\ UNCHANGED <<_options, platform>>

Next == \E phase \in PhaseIds, project \in ProjectIds : CreateOperationRunner(phase, project)

Spec == Init /\ [][Next]_vars

----------------------------------------------------------------------------
\* Vocabulary of the properties, stated on the collaborators' data

Called == lastCall # NoCall

\* The three states of a project's script entry for a phase's name
MissingScript(phase, project) ==
  LET packageJson == Project(project).packageJson
      name == Phase(phase).name
  IN \/ ~packageJson.hasScripts
     \/ name \notin DOMAIN packageJson.scripts
     \/ packageJson.scripts[name].kind = "null"

EmptyScript(phase, project) ==
  /\ ~MissingScript(phase, project)
  /\ Project(project).packageJson.scripts[Phase(phase).name].value = <<>>

NonEmptyScript(phase, project) ==
  /\ ~MissingScript(phase, project)
  /\ Project(project).packageJson.scripts[Phase(phase).name].value # <<>>

RawScript(phase, project) == Project(project).packageJson.scripts[Phase(phase).name].value

Contains(text, part) ==
  \E i \in 1..(Len(text) + 1) :
    i + Len(part) - 1 <= Len(text) /\ SubSeq(text, i, i + Len(part) - 1) = part

RECURSIVE Flatten(_)
Flatten(lists) == IF lists = <<>> THEN <<>> ELSE Head(lists) \o Flatten(Tail(lists))

\* The tokens of the registered parameters associated with the phase, in
\* registration order
ExpectedArgs(phase) ==
  LET Associated(registered) == registered.parameter \in Phase(phase).associatedParameters
      selected == SelectSeq(_options.customParameters, Associated)
  IN Flatten([i \in DOMAIN selected |-> RenderedTokens(selected[i].tsCommandLineParameter)])

\* What the host does to a command line before running it
OnHost(command) ==
  IF platform = "win32" THEN convertSlashesForWindows(command) ELSE command

\* The phase's name without the well-known prefix it starts with
DisplayedPhaseName(phase) ==
  LET name == Phase(phase).name
  IN CHOOSE rest \in {SubSeq(name, k, Len(name)) : k \in 1..(Len(name) + 1)} :
       phaseNamePrefix \o rest = name

----------------------------------------------------------------------------
\* C1: when the project has no usable script for the phase (no scripts section,
\* no such key, or null), the call throws the missing-script error, whose message
\* names the package and the phase, exactly when ignoreMissingScript is false;
\* when it is true nothing is thrown and a no-op runner with status FromCache
\* is returned.
C1_MissingScript ==
  (Called /\ MissingScript(lastCall.phase, lastCall.project)) =>
    IF Phase(lastCall.phase).ignoreMissingScript
    THEN lastOutcome.kind = "noop" /\ lastOutcome.result = "FromCache"
    ELSE /\ lastOutcome.kind = "error"
         /\ Contains(lastOutcome.message, Project(lastCall.project).packageName)
         /\ Contains(lastOutcome.message, Phase(lastCall.phase).name)

C1_Witness ==
  /\ Called
  /\ MissingScript(lastCall.phase, lastCall.project)
  /\ Project(lastCall.project).packageJson.hasScripts
  /\ lastOutcome.kind = "error"

\* C2: for a non-empty script the call returns a shell runner whose command is
\* the raw script and the phase's rendered arguments joined by single spaces,
\* unchanged on a non-Windows host and slash-converted on Windows.
C2_ShellCommand ==
  (Called /\ NonEmptyScript(lastCall.phase, lastCall.project)) =>
    /\ lastOutcome.kind = "shell"
    /\ lastOutcome.commandToRun =
         OnHost(join(<<RawScript(lastCall.phase, lastCall.project)>>
                     \o ExpectedArgs(lastCall.phase), SPACE))

\* C3: for an empty script the call throws nothing and returns a no-op runner
\* (FromCache, not silent), whatever ignoreMissingScript is.
C3_EmptyScript ==
  (Called /\ EmptyScript(lastCall.phase, lastCall.project)) =>
    /\ lastOutcome.kind = "noop"
    /\ lastOutcome.result = "FromCache"
    /\ lastOutcome.silent = FALSE

C3_Witness ==
  /\ Called
  /\ EmptyScript(lastCall.phase, lastCall.project)
  /\ ~Phase(lastCall.phase).ignoreMissingScript
  /\ lastOutcome.kind = "noop"

\* C4: with no custom parameters for the phase and a non-empty script S, the
\* shell runner's command on a non-Windows host is S exactly.
C4_NoParameters ==
  (/\ Called
   /\ NonEmptyScript(lastCall.phase, lastCall.project)
   /\ ExpectedArgs(lastCall.phase) = <<>>
   /\ platform # "win32") =>
    /\ lastOutcome.kind = "shell"
    /\ lastOutcome.commandToRun = RawScript(lastCall.phase, lastCall.project)

\* C5: the runner's display name is the package name for a synthetic phase, and
\* otherwise "<packageName> (<phase name without its prefix>)"; project beta and
\* the phase shown as test give "beta (test)".
C5_DisplayName ==
  (Called /\ lastOutcome.kind \in {"shell", "noop"}) =>
    /\ lastOutcome.displayName =
         IF Phase(lastCall.phase).isSynthetic
         THEN Project(lastCall.project).packageName
         ELSE Project(lastCall.project).packageName \o <<" ", "(">>
              \o DisplayedPhaseName(lastCall.phase) \o <<")">>
    /\ (lastCall.phase = "test" /\ lastCall.project = "beta") =>
         lastOutcome.displayName = <<"b", "e", "t", "a", " ", "(", "t", "e", "s", "t", ")">>

C5_Witness ==
  /\ lastCall = [phase |-> "test", project |-> "beta"]
  /\ lastOutcome.kind = "noop"

\* C6: a phase's argument list is built at most once: the first call for the
\* phase builds it, and every later call for that phase, for any project and
\* also when the list is empty, reuses the stored list unchanged and makes no
\* appendToArgList call.
C6_ComputedOnce ==
  /\ [](\A ph \in PhaseIds : computations[ph] <= 1)
  /\ [][calls' = calls + 1 =>
          LET ph == lastCall'.phase
          IN IF ph \in passed
             THEN /\ ph \in DOMAIN _customParametersByPhase
                  /\ _customParametersByPhase'[ph] = _customParametersByPhase[ph]
                  /\ observed'[ph] = {_customParametersByPhase[ph]}
                  /\ appendToArgListCalls' = appendToArgListCalls
                  /\ computations' = computations
                  /\ ~lastComputed'
             ELSE /\ lastComputed'
                  /\ computations'[ph] = 1]_vars

C6_Witness ==
  /\ Called
  /\ ~lastComputed
  /\ prevCall.phase = lastCall.phase
  /\ prevCall.project # lastCall.project
  /\ Phase(lastCall.phase).associatedParameters # {}
  /\ _customParametersByPhase[lastCall.phase] = <<>>

\* C7: when calls for several projects sharing a phase arrive while the phase
\* has no entry, in any order, one of them fills the entry: it is built once,
\* never built again or left partial, and every call is given the same
\* complete list.
C7_SingleWinner ==
  \A ph \in PhaseIds :
    /\ computations[ph] <= 1
    /\ ph \in passed =>
         /\ ph \in DOMAIN _customParametersByPhase
         /\ computations[ph] = 1
         /\ _customParametersByPhase[ph] = ExpectedArgs(ph)
         /\ observed[ph] = {_customParametersByPhase[ph]}

C7_Witness ==
  /\ calls = 2
  /\ prevCall.phase = lastCall.phase
  /\ prevCall.project # lastCall.project
  /\ computations[lastCall.phase] = 1
  /\ ExpectedArgs(lastCall.phase) # <<>>

\* C8: a phase's argument list is the tokens of exactly the registered
\* parameters associated with the phase, in registration order, each rendered
\* once; a parameter not associated with the phase adds nothing to its command.
C8_AssociatedOnly ==
  /\ \A ph \in DOMAIN _customParametersByPhase :
       _customParametersByPhase[ph] = ExpectedArgs(ph)
  /\ \A p \in ParameterIds :
       appendToArgListCalls[p] =
         Cardinality({ph \in DOMAIN _customParametersByPhase :
                        p \in Phase(ph).associatedParameters})
  /\ (Called /\ lastOutcome.kind = "shell") =>
       lastOutcome.commandToRun =
         OnHost(RawScript(lastCall.phase, lastCall.project) \o SPACE
                \o join(ExpectedArgs(lastCall.phase), SPACE))

C8_Witness ==
  /\ lastCall = [phase |-> "test", project |-> "alpha"]
  /\ lastOutcome.kind = "shell"
  /\ _options.customParameters[1].parameter = "locale"
  /\ _options.customParameters[2].parameter = "verbose"
  /\ Len(_customParametersByPhase["test"]) = 3

\* C9: every call's outcome is the one a fresh factory with the same options
\* gives for that (phase, project): it does not depend on the calls before it.
C9_HistoryIndependent ==
  Called =>
    lastOutcome =
      createOperationRunner(<<>>, _options, platform, lastCall.phase, lastCall.project).outcome

C9_Witness ==
  /\ Called
  /\ ~lastComputed
  /\ Cardinality(DOMAIN _customParametersByPhase) >= 2
  /\ lastOutcome.kind = "shell"
  /\ ExpectedArgs(lastCall.phase) # <<>>

\* C10: a call changes no factory state but the per-phase map, and changes the
\* map by at most adding the called phase's entry: other entries stay, no entry
\* is modified or removed, the cached phases are among those passed so far, and
\* a call that throws has its phase's entry stored already.
C10_Frame ==
  /\ [](/\ DOMAIN _customParametersByPhase \subseteq passed
        /\ lastOutcome.kind = "error" => lastCall.phase \in DOMAIN _customParametersByPhase)
  /\ [][/\ _options' = _options
        /\ \A ph \in DOMAIN _customParametersByPhase :
             /\ ph \in DOMAIN _customParametersByPhase'
             /\ _customParametersByPhase'[ph] = _customParametersByPhase[ph]
        /\ DOMAIN _customParametersByPhase' \subseteq
             DOMAIN _customParametersByPhase \cup {lastCall'.phase}]_vars

C10_Witness ==
  /\ lastOutcome.kind = "error"
  /\ lastComputed
  /\ Cardinality(DOMAIN _customParametersByPhase) >= 2

====
